---- MODULE Spec2Model ----
(***************************************************************************)
(* Model of the Sri Lanka dashboard script (src/app.py).  One run of the   *)
(* script is one step: every widget interaction re-executes the script top *)
(* to bottom against the memoized dataset and the current widget values.  *)
(*                                                                         *)
(* Numbers are exact rationals [n, d] in lowest terms with d > 0.  The     *)
(* non-finite floats are d = 0: NaN is [0, 0], +inf is [1, 0], -inf is     *)
(* [-1, 0].  IEEE rounding is not modelled.                                *)
(***************************************************************************)
EXTENDS Integers, Sequences, FiniteSets, TLC

\* -------------------------------------------------------------------------
\* Bounds of the model
\* -------------------------------------------------------------------------
\* rows of a generated dataset
MaxRecords == 2
\* length of a free-standing series handed to the rolling statistics
MaxSeriesLen == 6

\* calendar years a record of the model may carry
Years == 2018 .. 2020

\* -------------------------------------------------------------------------
\* Numbers
\* -------------------------------------------------------------------------
NaN == [n |-> 0, d |-> 0]
Inf == [n |-> 1, d |-> 0]
NegInf == [n |-> -1, d |-> 0]

Abs(a) == IF a < 0 THEN -a ELSE a

RECURSIVE GCD(_, _)
GCD(a, b) == IF b = 0 THEN a ELSE GCD(b, a % b)

\* the rational num/den (den # 0) in lowest terms, denominator positive
Rat(num, den) ==
    LET g == GCD(Abs(num), Abs(den))
        s == IF den < 0 THEN -1 ELSE 1
    IN [n |-> (s * num) \div g, d |-> (s * den) \div g]

Num(i) == [n |-> i, d |-> 1]

isna(x) == x = NaN
isinf(x) == x.d = 0 /\ x.n # 0
IsFinite(x) == x.d > 0

RAdd(a, b) == Rat(a.n * b.d + b.n * a.d, a.d * b.d)
RMul(a, b) == Rat(a.n * b.n, a.d * b.d)

RECURSIVE SumSeq(_)
SumSeq(s) == IF s = <<>> THEN Num(0) ELSE RAdd(Head(s), SumSeq(Tail(s)))

\* float division a / b of two floats, a and b finite or NaN
FloatDiv(a, b) ==
    IF isna(a) \/ isna(b) THEN NaN
    ELSE IF b.n = 0
         THEN (IF a.n = 0 THEN NaN ELSE IF a.n > 0 THEN Inf ELSE NegInf)
         ELSE Rat(a.n * b.d, a.d * b.n)

\* float a - b with a possibly infinite, b finite
FloatSub(a, b) ==
    IF isna(a) \/ isna(b) THEN NaN
    ELSE IF isinf(a) THEN a
    ELSE Rat(a.n * b.d - b.n * a.d, a.d * b.d)

\* float a * k for a finite positive scalar k
FloatScale(a, k) ==
    IF isna(a) THEN NaN
    ELSE IF isinf(a) THEN a
    ELSE Rat(a.n * k, a.d)

\* -------------------------------------------------------------------------
\* Sequence helpers
\* -------------------------------------------------------------------------
\* a sequence / a function given by a rule, written out once as a value
AsTuple(s) == s \o <<>>
AsFunction(f) == f @@ <<>>

\* the one element of a one-element set: Only({e(x) : x \in {v}}) is e(v)
\* with v computed once
Only(S) == CHOOSE x \in S : TRUE

Range(s) == {s[i] : i \in DOMAIN s}

SetMin(S) == CHOOSE m \in S : \A k \in S : m <= k
SetMax(S) == CHOOSE m \in S : \A k \in S : m >= k

RECURSIVE sorted(_)
\* Python sorted() of a set of integers: ascending sequence
sorted(S) == IF S = {} THEN <<>> ELSE <<SetMin(S)>> \o sorted(S \ {SetMin(S)})

\* -------------------------------------------------------------------------
\* Column names
\* -------------------------------------------------------------------------
GDP == "ny.gdp.mktp.cd"
GDP_PCAP == "ny.gdp.pcap.cd"
LIFE_EXP == "sp.dyn.le00.in"
POP_GROW == "sp.pop.grow"
FERTILITY == "sp.dyn.tfrt.in"
RURAL == "sp.rur.totl.zs"
HIV == "sh.dyn.aids.zs"
DEFLATOR == "ny.gdp.defl.zs"
DEBT_SERVICE == "dt.tds.dect.gn.zs"
EXCHANGE == "pa.nus.fcrf"

\* variant: GDP per capita is aggregated as well
AggCodesWithPerCapita == {GDP, GDP_PCAP, LIFE_EXP, POP_GROW, FERTILITY, RURAL, HIV,
                          DEFLATOR, DEBT_SERVICE, EXCHANGE}

\* the keys of the dictionary handed to groupby().agg()
AggCodes == {GDP, LIFE_EXP, POP_GROW, FERTILITY, RURAL, HIV, DEFLATOR,
             DEBT_SERVICE, EXCHANGE}

\* Data Explorer catalog: human-readable label -> column
indicator_map ==
    [label \in {"GDP (Current US$)", "GDP per Capita (Current US$)",
                "Life Expectancy", "Fertility Rate", "Population Growth (%)",
                "Exchange Rate (LKR/USD)", "Debt Service (% of GNI)",
                "GDP Deflator", "Rural Population (%)", "HIV Prevalence (%)"} |->
        CASE label = "GDP (Current US$)" -> GDP
          [] label = "GDP per Capita (Current US$)" -> GDP_PCAP
          [] label = "Life Expectancy" -> LIFE_EXP
          [] label = "Fertility Rate" -> FERTILITY
          [] label = "Population Growth (%)" -> POP_GROW
          [] label = "Exchange Rate (LKR/USD)" -> EXCHANGE
          [] label = "Debt Service (% of GNI)" -> DEBT_SERVICE
          [] label = "GDP Deflator" -> DEFLATOR
          [] label = "Rural Population (%)" -> RURAL
          [] label = "HIV Prevalence (%)" -> HIV]

CatalogCodes == {indicator_map[l] : l \in DOMAIN indicator_map}

\* -------------------------------------------------------------------------
\* Period labels.  A label is a sequence of character codes: 0..9 are the
\* digits, DASH is '-', QCH is 'Q'.  "2018-Q1" is <<2,0,1,8,DASH,QCH,1>>.
\* -------------------------------------------------------------------------
DASH == 10
QCH == 11

RECURSIVE Digits(_)
Digits(k) == IF k < 10 THEN <<k>> ELSE Digits(k \div 10) \o <<k % 10>>

PeriodLabel(y, q) == Digits(y) \o <<DASH, QCH, q>>

RECURSIVE SplitFirst(_)
\* str.split('-').str[0]: the characters before the first '-'
SplitFirst(chars) ==
    IF chars = <<>> \/ Head(chars) = DASH THEN <<>>
    ELSE <<Head(chars)>> \o SplitFirst(Tail(chars))

\* variant: every string converts, a character counting as its code
IsIntLiteralLenient(chars) == TRUE

\* int() accepts the string: it is a non-empty run of digits
IsIntLiteral(chars) == chars # <<>> /\ \A i \in DOMAIN chars : chars[i] \in 0 .. 9

RECURSIVE IntOf(_)
\* astype(int) of a string of digits
IntOf(chars) ==
    IF chars = <<>> THEN 0
    ELSE IntOf(SubSeq(chars, 1, Len(chars) - 1)) * 10 + chars[Len(chars)]

\* -------------------------------------------------------------------------
\* Loader and Period Normalizer
\* -------------------------------------------------------------------------
\* df after the module-level year_only derivation: the cached rows with a
\* year_only field added.  The precondition (every prefix parses) is checked
\* by YearOnlyRaises.
YearOnlyRaises(data) ==
    IF "time_period" \in data.columns
    THEN \E i \in DOMAIN data.rows : ~IsIntLiteral(SplitFirst(data.rows[i].time_period))
    ELSE "year" \notin data.columns

PeriodNormalizer(data) ==
    [columns |-> data.columns \cup {"year_only"},
     rows |-> AsTuple([i \in DOMAIN data.rows |->
                 [time_period |-> data.rows[i].time_period,
                  year |-> data.rows[i].year,
                  v |-> data.rows[i].v,
                  year_only |-> IF "time_period" \in data.columns
                                THEN IntOf(SplitFirst(data.rows[i].time_period))
                                ELSE data.rows[i].year]])]

\* years = sorted(df['year_only'].unique())
years(d) == sorted({d.rows[i].year_only : i \in DOMAIN d.rows})

\* -------------------------------------------------------------------------
\* Range Filter
\* -------------------------------------------------------------------------
\* variant: the upper end of the range is not applied
RangeFilterLowerOnly(d, sel) ==
    [columns |-> d.columns,
     rows |-> LET InRange(r) == r.year_only >= sel[1]
              IN SelectSeq(d.rows, InRange)]

\* variant: the upper end of the range is excluded
RangeFilterStrict(d, sel) ==
    [columns |-> d.columns,
     rows |-> LET InRange(r) == r.year_only >= sel[1] /\ r.year_only < sel[2]
              IN SelectSeq(d.rows, InRange)]

\* variant: an inverted range is read as the range between its two ends
RangeFilterNormalized(d, sel) ==
    [columns |-> d.columns,
     rows |-> LET lo == IF sel[1] <= sel[2] THEN sel[1] ELSE sel[2]
                  hi == IF sel[1] <= sel[2] THEN sel[2] ELSE sel[1]
                  InRange(r) == r.year_only >= lo /\ r.year_only <= hi
              IN SelectSeq(d.rows, InRange)]

RangeFilter(d, sel) ==
    [columns |-> d.columns,
     rows |-> LET InRange(r) == r.year_only >= sel[1] /\ r.year_only <= sel[2]
              IN SelectSeq(d.rows, InRange)]

\* -------------------------------------------------------------------------
\* Annual Aggregator
\* -------------------------------------------------------------------------
\* column c of the rows, as a sequence of numbers
Column(rows, c) == AsTuple([i \in DOMAIN rows |-> rows[i].v[c]])

\* variant: missing entries count as zero (the mean of fillna(0))
mean_fillzero(s) ==
    LET NotNa(x) == ~isna(x)
        present == SelectSeq(s, NotNa)
    IN IF s = <<>> THEN NaN
       ELSE LET t == SumSeq(present) IN Rat(t.n, t.d * Len(s))

\* Series.mean(): NaN entries are skipped; an empty or all-NaN series gives NaN
mean(s) ==
    LET NotNa(x) == ~isna(x)
        present == SelectSeq(s, NotNa)
    IN IF present = <<>> THEN NaN
       ELSE IF \E i \in DOMAIN present : isinf(present[i])
            THEN (IF \E i \in DOMAIN present : present[i] = Inf
                  THEN (IF \E i \in DOMAIN present : present[i] = NegInf THEN NaN ELSE Inf)
                  ELSE NegInf)
            ELSE LET t == SumSeq(present) IN Rat(t.n, t.d * Len(present))

AggRaises(fdf) == ~(AggCodes \subseteq fdf.columns)

\* filtered_df.groupby('year_only').agg({...: 'mean'}).reset_index()
GroupByMean(fdf) ==
    LET ys == sorted({fdf.rows[i].year_only : i \in DOMAIN fdf.rows})
    IN [columns |-> {"year_only"} \cup AggCodes,
        rows |-> AsTuple([k \in DOMAIN ys |->
                    LET InYear(r) == r.year_only = ys[k]
                        grp == SelectSeq(fdf.rows, InYear)
                    IN [year_only |-> ys[k],
                        v |-> AsFunction([c \in AggCodes |-> mean(Column(grp, c))])]])]

\* -------------------------------------------------------------------------
\* Derived-Metric Calculator
\* -------------------------------------------------------------------------
RECURSIVE ffill(_)
\* forward fill: a NaN takes the last earlier non-NaN value, leading NaN stay
ffill(s) ==
    IF Len(s) <= 1 THEN s
    ELSE LET init == ffill(SubSeq(s, 1, Len(s) - 1))
             last == s[Len(s)]
         IN init \o <<IF isna(last) THEN init[Len(init)] ELSE last>>

\* Series.pct_change(): data / data.shift(1) - 1, where data is the series
\* forward-filled when the installed pandas pads (fill = "pad") and the
\* series itself when it does not (fill = "none")
pct_change(s, fill) ==
    LET filled == IF fill = "pad" THEN ffill(s) ELSE s
    IN AsTuple([i \in DOMAIN s |->
          IF i = 1 THEN NaN
          ELSE FloatSub(FloatDiv(filled[i], filled[i - 1]), Num(1))])

\* variant: the fraction is not scaled to a percentage
gdp_growth_fraction(s, fill) == pct_change(s, fill)

\* annual_df[GDP].pct_change() * 100
gdp_growth_pct(s, fill) ==
    LET pc == pct_change(s, fill)
    IN AsTuple([i \in DOMAIN s |-> FloatScale(pc[i], 100)])

\* square of the sample standard deviation (ddof = 1) of a window of finite
\* values; the standard deviation itself is its square root.  A single
\* observation has no sample deviation (NaN).
StdSquared(win) ==
    LET w == Len(win)
        t == SumSeq(win)
        q == SumSeq([i \in DOMAIN win |-> RMul(win[i], win[i])])
        \* (w * sum(x^2) - sum(x)^2) / (w * (w - 1))
        top == RAdd(RMul(Num(w), q), RMul(Num(-1), RMul(t, t)))
    IN IF w < 2 THEN NaN ELSE Rat(top.n, top.d * w * (w - 1))

WindowMean(win) == LET t == SumSeq(win) IN Rat(t.n, t.d * Len(win))

\* the values a rolling window sees: infinities are turned into NaN
RollingPrep(s) == AsTuple([i \in DOMAIN s |-> IF isinf(s[i]) THEN NaN ELSE s[i]])

\* variant: one observation is enough (min_periods = 1)
MinPeriodsOne(w) == 1

\* the observations a window must hold (pandas: min_periods = window)
MinPeriods(w) == w

\* Series.rolling(window=w).<Stat>(): position i looks at the w entries
\* ending at i and is NaN unless MinPeriods(w) of them are present
Rolling(s, w, stat) ==
    LET x == RollingPrep(s)
    IN AsTuple([i \in DOMAIN s |->
          LET from == IF i - w + 1 < 1 THEN 1 ELSE i - w + 1
              NotNa(e) == ~isna(e)
              obs == SelectSeq(SubSeq(x, from, i), NotNa)
          IN IF Len(obs) < MinPeriods(w) THEN NaN
             ELSE IF stat = "std" THEN StdSquared(obs) ELSE WindowMean(obs)])

\* .rolling(window=5).std(), each entry given by its square
rolling_std(s) == Rolling(s, 5, "std")

\* .rolling(window=3).mean()
gdp_growth_smoothed(s) == Rolling(s, 3, "mean")

\* variant: a missing share counts as zero
ComplementFillZero(x) == IF isna(x) THEN Num(100) ELSE Rat(100 * x.d - x.n, x.d)

\* 100 - v
Complement(x) == IF isna(x) THEN NaN ELSE Rat(100 * x.d - x.n, x.d)

\* annual_df[name] = values: the frame with one more (or an overwritten) column
WithColumn(adf, name, values) ==
    [columns |-> adf.columns \cup {name},
     rows |-> AsTuple([i \in DOMAIN adf.rows |->
                 [year_only |-> adf.rows[i].year_only,
                  v |-> AsFunction([c \in (DOMAIN adf.rows[i].v) \cup {name} |->
                            IF c = name THEN values[i] ELSE adf.rows[i].v[c]])]])]

\* -------------------------------------------------------------------------
\* Correlation matrix.  A coefficient r is given by its sign and its square
\* (r = sign * sqrt(sq)); an undefined coefficient has sq = NaN.
\* -------------------------------------------------------------------------
CorrNaN == [sign |-> 0, sq |-> NaN]

Sign(x) == IF x.n > 0 THEN 1 ELSE IF x.n < 0 THEN -1 ELSE 0

\* variant: a row counts only when every correlated column is present in it
ListwiseRows(adf, cols, a, b) ==
    LET Complete(r) == \A i \in DOMAIN cols : ~isna(r.v[cols[i]])
    IN SelectSeq(adf.rows, Complete)

\* the rows a pair of columns is correlated over: those where both are present
PairRows(adf, cols, a, b) ==
    LET Both(r) == ~isna(r.v[a]) /\ ~isna(r.v[b])
    IN SelectSeq(adf.rows, Both)

\* Pearson coefficient of the paired observations xs, ys (min_periods = 1):
\* covxy / sqrt(ssqdm_x * ssqdm_y), NaN when the divisor is zero
Pearson(xs, ys) ==
    LET n == Len(xs)
        sx == SumSeq(xs)
        sy == SumSeq(ys)
        sxx == SumSeq([i \in DOMAIN xs |-> RMul(xs[i], xs[i])])
        syy == SumSeq([i \in DOMAIN ys |-> RMul(ys[i], ys[i])])
        sxy == SumSeq([i \in DOMAIN xs |-> RMul(xs[i], ys[i])])
        ssqdm_x == RAdd(RMul(Num(n), sxx), RMul(Num(-1), RMul(sx, sx)))
        ssqdm_y == RAdd(RMul(Num(n), syy), RMul(Num(-1), RMul(sy, sy)))
        covxy == RAdd(RMul(Num(n), sxy), RMul(Num(-1), RMul(sx, sy)))
        \* a column that does not vary has ssqdm = 0
        Constant(zs) == \A i \in DOMAIN zs : zs[i] = zs[1]
    IN IF n < 1 \/ Constant(xs) \/ Constant(ys) THEN CorrNaN
       ELSE [sign |-> Sign(covxy),
             sq |-> FloatDiv(RMul(covxy, covxy), RMul(ssqdm_x, ssqdm_y))]

\* annual_df[cols].corr(): the coefficient of every pair of columns is
\* computed once, for the pair in column order (j <= i), and stored at both
\* places.  Each intermediate value is bound once it is computed.
corr(adf, cols) ==
    LET Coef(j, i) ==
            Only({Only({Pearson(p[1], p[2]) :
                          p \in {<<Column(rows, cols[j]), Column(rows, cols[i])>>}}) :
                    rows \in {PairRows(adf, cols, cols[j], cols[i])}})
    IN Only({AsTuple([i \in DOMAIN cols |->
                AsTuple([j \in DOMAIN cols |->
                   IF j <= i THEN lower[i][j] ELSE lower[j][i]])]) :
               lower \in {AsTuple([i \in DOMAIN cols |->
                             AsTuple([j \in 1 .. i |-> Coef(j, i)])])}})

\* -------------------------------------------------------------------------
\* State
\* -------------------------------------------------------------------------
VARIABLES
    data,            \* the memoized result of load_data()
    fill_method,     \* what pct_change() of the installed pandas does with NaN
    pages,           \* sidebar radio
    selected_years,  \* sidebar slider, <<lo, hi>>
    x_variable,      \* Data Explorer select boxes and radio
    y_variable,
    viz_type,
    select_columns,  \* Data Explorer multiselect, in selection order
    filtered,        \* filtered_df of the last run
    annual_df,       \* annual_df of the last run, with the columns the page added
    out,             \* what the last run put on the page
    view,            \* the values the last run handed to the charts
    err,             \* exception that ended the last run, "none" if it completed
    series,          \* a free-standing series and the rolling statistic of it
    rolled

vars == <<data, fill_method, pages, selected_years, x_variable, y_variable,
          viz_type, select_columns, filtered, annual_df, out, view, err,
          series, rolled>>

PageNames == {"Overview", "Economic Indicators", "Demographic Indicators",
              "Correlations & Relationships", "Data Explorer", "About"}

\* df of the current run
df == PeriodNormalizer(data)

EmptyFrame == [columns |-> {}, rows |-> <<>>]

\* -------------------------------------------------------------------------
\* Pages
\* -------------------------------------------------------------------------
events == {1977, 1983, 2004, 2009, 2019, 2020, 2022}

\* variant: the first row instead of the last
iloc_first(rows) == rows[1]

\* .iloc[-1]: the last row
iloc_last(rows) == rows[Len(rows)]

\* variant: every event is marked, whatever the range
event_markers_all(sel) == events

\* the events marked on the GDP trend chart: those of the selected range
event_markers(sel) == {e \in events : e >= sel[1] /\ e <= sel[2]}

show_overview(fdf, adf, sel) ==
    LET ys == {fdf.rows[i].year_only : i \in DOMAIN fdf.rows}
        IsLatest(r) == r.year_only = SetMax(ys)
        latest_data == IF ys = {} THEN <<>> ELSE SelectSeq(fdf.rows, IsLatest)
        n == Len(adf.rows)
        metrics == IF Len(latest_data) > 0
                   THEN {"key_metrics"} ELSE {"warning_no_data"}
        insights == IF n > 1 THEN {"insights"} ELSE {"warning_insufficient_data"}
        chart == IF GDP \in adf.columns THEN {"gdp_trend_chart"} ELSE {}
    IN [annual |-> adf,
        out |-> metrics \cup insights \cup chart,
        view |-> [latest_row |-> IF Len(latest_data) > 0
                                 THEN <<iloc_last(latest_data)>> ELSE <<>>,
                  avg_gdp_growth |->
                      IF n > 1
                      THEN <<FloatScale(mean(pct_change(Column(adf.rows, GDP), fill_method)), 100)>>
                      ELSE <<>>,
                  life_exp_change |->
                      IF n > 1
                      THEN <<FloatSub(adf.rows[n].v[LIFE_EXP], adf.rows[1].v[LIFE_EXP])>>
                      ELSE <<>>,
                  fertility_change |->
                      IF n > 1
                      THEN <<FloatSub(adf.rows[n].v[FERTILITY], adf.rows[1].v[FERTILITY])>>
                      ELSE <<>>,
                  vlines |-> IF GDP \in adf.columns THEN event_markers(sel) ELSE {}]]

show_economic_indicators(fdf, adf, sel) ==
    LET a1 == IF "gdp_growth_pct" \notin adf.columns /\ GDP \in adf.columns
              THEN WithColumn(adf, "gdp_growth_pct",
                              gdp_growth_pct(Column(adf.rows, GDP), fill_method))
              ELSE adf
    IN [annual |-> a1,
        out |-> {"gdp_growth_volatility_chart", "exchange_deflator_chart",
                 "debt_service_chart"},
        view |-> [rolling_std |-> rolling_std(Column(a1.rows, "gdp_growth_pct")),
                  hlines |-> {<<"zero_growth", Num(0)>>,
                              <<"debt_service_warning", Num(5)>>}]]

show_demographic_indicators(fdf, adf, sel) ==
    LET rural == Column(adf.rows, RURAL)
        a1 == WithColumn(adf, "urban_population_pct",
                         AsTuple([i \in DOMAIN rural |-> Complement(rural[i])]))
    IN [annual |-> a1,
        out |-> {"life_fertility_chart", "population_urbanization_chart"}
                \cup (IF "sp.dyn.imrt.in" \in a1.columns
                      THEN {"infant_mortality_chart"} ELSE {}),
        view |-> [hlines |-> {<<"replacement_fertility", Rat(21, 10)>>,
                              <<"zero_population_growth", Num(0)>>}]]

key_indicators == <<GDP, GDP_PCAP, LIFE_EXP, FERTILITY, POP_GROW, EXCHANGE,
                    DEBT_SERVICE, DEFLATOR>>

show_correlations(fdf, adf, sel) ==
    LET a1 == IF "gdp_growth_pct" \notin adf.columns /\ GDP \in adf.columns
              THEN WithColumn(adf, "gdp_growth_pct",
                              gdp_growth_pct(Column(adf.rows, GDP), fill_method))
              ELSE adf
        a2 == WithColumn(a1, "gdp_growth_smoothed",
                         gdp_growth_smoothed(Column(a1.rows, "gdp_growth_pct")))
        InAnnual(c) == c \in a2.columns
        available_indicators == SelectSeq(key_indicators, InAnnual)
    IN [annual |-> a2,
        out |-> (IF GDP_PCAP \in a2.columns /\ LIFE_EXP \in a2.columns
                 THEN {"gdp_per_capita_life_expectancy_scatter"} ELSE {})
                \cup (IF Len(available_indicators) >= 2
                      THEN {"correlation_matrix"} ELSE {})
                \cup (IF GDP_PCAP \in a2.columns
                      THEN {"growth_pattern_scatter"} ELSE {}),
        view |-> [available_indicators |-> available_indicators,
                  corr_matrix |-> IF Len(available_indicators) >= 2
                                  THEN Only({corr(f, cs) : f \in {a2},
                                                          cs \in {available_indicators}})
                                  ELSE <<>>]]

show_about(fdf, adf, sel) ==
    [annual |-> adf, out |-> {"about"}, view |-> [about |-> TRUE]]

\* the labels of indicator_map in dictionary order
indicator_labels ==
    <<"GDP (Current US$)", "GDP per Capita (Current US$)", "Life Expectancy",
      "Fertility Rate", "Population Growth (%)", "Exchange Rate (LKR/USD)",
      "Debt Service (% of GNI)", "GDP Deflator", "Rural Population (%)",
      "HIV Prevalence (%)">>

\* the labels whose column the loaded frame has
available_indicators(columns) ==
    LET Has(l) == indicator_map[l] \in columns
    IN SelectSeq(indicator_labels, Has)

\* widget defaults: index=0, index=1 if more than one option, the first three
DefaultX(columns) ==
    LET a == available_indicators(columns) IN IF a = <<>> THEN "" ELSE a[1]
DefaultY(columns) ==
    LET a == available_indicators(columns)
    IN IF a = <<>> THEN "" ELSE IF Len(a) > 1 THEN a[2] ELSE a[1]
DefaultColumns(columns) ==
    LET a == available_indicators(columns)
    IN SubSeq(a, 1, IF Len(a) < 3 THEN Len(a) ELSE 3)

RECURSIVE SortYearDescending(_)
\* sort_values('Year', ascending=False), rows of one year kept in their order
SortYearDescending(rows) ==
    IF rows = <<>> THEN <<>>
    ELSE LET top == SetMax({rows[i].Year : i \in DOMAIN rows})
             IsTop(r) == r.Year = top
             NotTop(r) == r.Year # top
         IN SelectSeq(rows, IsTop) \o SortYearDescending(SelectSeq(rows, NotTop))

show_data_explorer(fdf, adf, sel, xv, yv, vt, sc) ==
    LET xcol == indicator_map[xv]
        ycol == indicator_map[yv]
        traces == (IF xcol \in adf.columns THEN <<xv>> ELSE <<>>)
                  \o (IF ycol \in adf.columns THEN <<yv>> ELSE <<>>)
        chart == IF vt = "Line Chart" THEN {"line_chart"}
                 ELSE IF xcol \in adf.columns /\ ycol \in adf.columns
                      THEN {"scatter_chart"}
                      ELSE {"placeholder_data_not_available"}
        InFrame(l) == indicator_map[l] \in fdf.columns
        shown == SelectSeq(sc, InFrame)
        display_cols == <<"year_only">> \o [i \in DOMAIN shown |-> indicator_map[shown[i]]]
        header == <<"Year">> \o shown
        display_df == AsTuple([i \in DOMAIN fdf.rows |->
                         [Year |-> fdf.rows[i].year_only,
                          cells |-> AsTuple([k \in DOMAIN shown |->
                                       fdf.rows[i].v[indicator_map[shown[k]]]])]])
    IN [annual |-> adf,
        out |-> chart \cup (IF display_cols # <<>>
                            THEN {"data_table", "download_link"}
                            ELSE {"info_select_column"}),
        view |-> [traces |-> IF vt = "Line Chart" THEN traces ELSE <<>>,
                  header |-> header,
                  table |-> SortYearDescending(display_df),
                  csv |-> display_df]]

\* -------------------------------------------------------------------------
\* One run of the script
\* -------------------------------------------------------------------------
Script(p, sel, xv, yv, vt, sc) ==
    IF YearOnlyRaises(data)
    THEN [filtered |-> EmptyFrame, annual |-> EmptyFrame, out |-> {"exception"},
          view |-> [exception |-> TRUE],
          err |-> IF "time_period" \in data.columns THEN "ValueError" ELSE "KeyError"]
    ELSE Only({
           IF AggRaises(fdf)
           THEN [filtered |-> fdf, annual |-> EmptyFrame, out |-> {"exception"},
                 view |-> [exception |-> TRUE], err |-> "KeyError"]
           ELSE Only({Only({Only({
                    [filtered |-> fdf, annual |-> r.annual, out |-> r.out,
                     view |-> r.view, err |-> "none"] :
                  r \in {CASE p = "Overview" -> show_overview(fdf, a1, sel)
                           [] p = "Economic Indicators" -> show_economic_indicators(fdf, a1, sel)
                           [] p = "Demographic Indicators" -> show_demographic_indicators(fdf, a1, sel)
                           [] p = "Correlations & Relationships" -> show_correlations(fdf, a1, sel)
                           [] p = "Data Explorer" -> show_data_explorer(fdf, a1, sel, xv, yv, vt, sc)
                           [] OTHER -> show_about(fdf, a1, sel)}}) :
                  a1 \in {IF GDP \in a0.columns
                          THEN WithColumn(a0, "gdp_growth_pct",
                                          gdp_growth_pct(Column(a0.rows, GDP), fill_method))
                          ELSE a0}}) :
                  a0 \in {GroupByMean(fdf)}}) :
         fdf \in {RangeFilter(df, sel)}})

\* variant: load_data() hands out the memoized frame itself, so the year_only
\* column the script adds is added to it
RerunSharedFrame(p, sel, xv, yv, vt, sc) ==
    \E r \in {Script(p, sel, xv, yv, vt, sc)} :
       /\ pages' = p
       /\ selected_years' = sel
       /\ x_variable' = xv
       /\ y_variable' = yv
       /\ viz_type' = vt
       /\ select_columns' = sc
       /\ filtered' = r.filtered
       /\ annual_df' = r.annual
       /\ out' = r.out
       /\ view' = r.view
       /\ err' = r.err
       /\ data' = [columns |-> data.columns \cup {"year_only"}, rows |-> data.rows]
       /\ UNCHANGED <<fill_method, series, rolled>>

\* variant: the annual series of the last run is kept while the range stays
RerunIncremental(p, sel, xv, yv, vt, sc) ==
    \E r \in {Script(p, sel, xv, yv, vt, sc)} :
       /\ pages' = p
       /\ selected_years' = sel
       /\ x_variable' = xv
       /\ y_variable' = yv
       /\ viz_type' = vt
       /\ select_columns' = sc
       /\ filtered' = r.filtered
       /\ annual_df' = IF err = "none" /\ sel = selected_years THEN annual_df ELSE r.annual
       /\ out' = r.out
       /\ view' = r.view
       /\ err' = r.err
       /\ UNCHANGED <<data, fill_method, series, rolled>>

\* the script runs with the given widget values and leaves its results
Rerun(p, sel, xv, yv, vt, sc) ==
    \E r \in {Script(p, sel, xv, yv, vt, sc)} :
       /\ pages' = p
       /\ selected_years' = sel
       /\ x_variable' = xv
       /\ y_variable' = yv
       /\ viz_type' = vt
       /\ select_columns' = sc
       /\ filtered' = r.filtered
       /\ annual_df' = r.annual
       /\ out' = r.out
       /\ view' = r.view
       /\ err' = r.err
       /\ UNCHANGED <<data, fill_method, series, rolled>>

\* widgets of a page that is not drawn are forgotten: the Data Explorer
\* starts from its defaults every time it is entered
RerunPage(p, sel) ==
    Rerun(p, sel, DefaultX(data.columns), DefaultY(data.columns), "Line Chart",
          DefaultColumns(data.columns))

\* -------------------------------------------------------------------------
\* Datasets of the model
\* -------------------------------------------------------------------------
GdpValues == {NaN, Num(100)}
OtherValues == {NaN, Num(30)}

AllColumns == {"time_period"} \cup CatalogCodes

\* the column sets a loaded file may have: everything, an aggregated column
\* missing, the per-capita column missing, a year column instead of periods
ColumnVariants ==
    {AllColumns, AllColumns \ {HIV}, AllColumns \ {GDP_PCAP},
     (AllColumns \ {"time_period"}) \cup {"year"}}

\* row i of a file: period label of year y (quarter by position), GDP value
\* g and value o in every other indicator column
MkRow(columns, i, y, g, o) ==
    [time_period |-> IF "time_period" \in columns
                     THEN PeriodLabel(y, ((i - 1) % 4) + 1) ELSE <<>>,
     year |-> IF "year" \in columns THEN y ELSE 0,
     v |-> AsFunction([c \in columns \cap CatalogCodes |-> IF c = GDP THEN g ELSE o])]

\* the file with the given columns and one row per <<year, gdp, other>>
MkData(columns, rowspec) ==
    [columns |-> columns,
     rows |-> AsTuple([i \in DOMAIN rowspec |->
                MkRow(columns, i, rowspec[i][1], rowspec[i][2], rowspec[i][3])])]

RowSpecs(n, Gs, Os) == [1 .. n -> Years \X Gs \X Os]

InPeriodOrder(t) == \A i \in 1 .. (Len(t) - 1) : t[i][1] <= t[i + 1][1]

\* files in period order whose GDP column varies
TrendDatasets ==
    UNION {{MkData(AllColumns, sp) :
              sp \in {t \in RowSpecs(n, GdpValues, {Num(30)}) : InPeriodOrder(t)}} :
             n \in 1 .. MaxRecords}

\* files in period order whose other columns vary
MixedDatasets ==
    UNION {{MkData(AllColumns, sp) :
              sp \in {t \in RowSpecs(n, {Num(100)}, OtherValues) : InPeriodOrder(t)}} :
             n \in 1 .. MaxRecords}

\* files whose rows come in any order
ShuffledDatasets ==
    UNION {{MkData(AllColumns, sp) : sp \in RowSpecs(n, {Num(100)}, {Num(30)})} :
             n \in 1 .. MaxRecords}

\* the worked examples: 100, 200, missing over 2018-2020; a missing year
\* between two values; 100 then 110; a zero year before a value
ExampleRows ==
    {<<<<2018, Num(100), Num(30)>>, <<2019, Num(200), Num(30)>>, <<2020, NaN, Num(30)>>>>,
     <<<<2018, Num(100), Num(30)>>, <<2019, NaN, Num(30)>>, <<2020, Num(200), Num(30)>>>>,
     <<<<2018, Num(100), Num(30)>>, <<2019, Num(110), NaN>>>>,
     <<<<2018, Num(0), Num(30)>>, <<2019, Num(100), Num(30)>>, <<2020, Num(0), Num(30)>>>>}

\* the examples under every column set
ExampleDatasets == {MkData(cs, sp) : cs \in ColumnVariants, sp \in ExampleRows}

\* period labels without a year before the first '-': "Q1-2018", "2018Q1", ""
BadLabels == {<<QCH, 1, DASH, 2, 0, 1, 8>>, <<2, 0, 1, 8, QCH, 1>>, <<>>}

\* the file d with the period label of its last row replaced
WithLastLabel(d, label) ==
    [columns |-> d.columns,
     rows |-> AsTuple([i \in DOMAIN d.rows |->
                 IF i = Len(d.rows)
                 THEN [time_period |-> label, year |-> d.rows[i].year, v |-> d.rows[i].v]
                 ELSE d.rows[i]])]

\* files with a period label that does not parse
MalformedDatasets ==
    {WithLastLabel(MkData(AllColumns,
                          <<<<2018, Num(100), Num(30)>>, <<2019, Num(110), Num(30)>>>>), l) :
        l \in BadLabels}

Datasets ==
    TrendDatasets \cup MixedDatasets \cup ShuffledDatasets \cup ExampleDatasets
    \cup MalformedDatasets

\* -------------------------------------------------------------------------
\* Initial state: the file is on disk and the session is opened; nothing has
\* been drawn yet.  The first run of the script is the step OpenSession.
\* -------------------------------------------------------------------------
Init ==
    /\ data \in Datasets
    /\ fill_method \in {"pad", "none"}
    /\ pages = "Overview"
    /\ selected_years = <<0, 0>>
    /\ x_variable = ""
    /\ y_variable = ""
    /\ viz_type = "Line Chart"
    /\ select_columns = <<>>
    /\ filtered = EmptyFrame
    /\ annual_df = EmptyFrame
    /\ out = {}
    /\ view = [not_run |-> TRUE]
    /\ err = "not_run"
    /\ series = <<>>
    /\ rolled = [stat |-> "none", values |-> <<>>]

\* -------------------------------------------------------------------------
\* User interactions; each one re-runs the script
\* -------------------------------------------------------------------------
\* slider value=(min(years), max(years)) of the first run
InitialRange ==
    IF YearOnlyRaises(data) THEN <<0, 0>>
    ELSE LET ys == years(df) IN <<ys[1], ys[Len(ys)]>>

\* the first run: every widget at its default
OpenSession ==
    /\ err = "not_run"
    /\ RerunPage("Overview", InitialRange)

SidebarDrawn == err # "not_run" /\ ~YearOnlyRaises(data)
ExplorerDrawn == pages = "Data Explorer" /\ err = "none"

\* variant: the slider is not given the file's smallest and largest year
SetYearRangeUnbounded ==
    /\ SidebarDrawn
    /\ \E lo \in Years :
         \E hi \in {h \in Years : h >= lo} :
           /\ <<lo, hi>> # selected_years
           /\ lo = selected_years[1] \/ hi = selected_years[2]
           /\ Rerun(pages, <<lo, hi>>, x_variable, y_variable, viz_type, select_columns)

\* the slider: one handle is dragged, lo <= hi stay between the smallest
\* and largest year of df
SetYearRange ==
    /\ SidebarDrawn
    /\ LET ys == years(df)
       IN \E lo \in ys[1] .. ys[Len(ys)] :
            \E hi \in lo .. ys[Len(ys)] :
              /\ <<lo, hi>> # selected_years
              /\ lo = selected_years[1] \/ hi = selected_years[2]
              /\ Rerun(pages, <<lo, hi>>, x_variable, y_variable, viz_type, select_columns)

SelectPage(p) ==
    /\ SidebarDrawn
    /\ pages # p
    /\ RerunPage(p, selected_years)

ShowOverview == SelectPage("Overview")
ShowEconomicIndicators == SelectPage("Economic Indicators")
ShowDemographicIndicators == SelectPage("Demographic Indicators")
ShowCorrelations == SelectPage("Correlations & Relationships")
ShowDataExplorer == SelectPage("Data Explorer")
ShowAbout == SelectPage("About")

\* the labels the model picks in the select boxes: the first two offered
ExplorerChoices ==
    LET a == available_indicators(data.columns)
    IN {a[i] : i \in 1 .. (IF Len(a) < 2 THEN Len(a) ELSE 2)}

SelectXVariable ==
    /\ ExplorerDrawn
    /\ \E l \in ExplorerChoices :
         /\ l # x_variable
         /\ Rerun(pages, selected_years, l, y_variable, viz_type, select_columns)

SelectYVariable ==
    /\ ExplorerDrawn
    /\ \E l \in ExplorerChoices :
         /\ l # y_variable
         /\ Rerun(pages, selected_years, x_variable, l, viz_type, select_columns)

SelectVizType ==
    /\ ExplorerDrawn
    /\ \E t \in {"Line Chart", "Scatter Plot"} :
         /\ t # viz_type
         /\ Rerun(pages, selected_years, x_variable, y_variable, t, select_columns)

SelectColumns ==
    /\ ExplorerDrawn
    /\ \E sc \in {<<>>, DefaultColumns(data.columns)} :
         /\ sc # select_columns
         /\ Rerun(pages, selected_years, x_variable, y_variable, viz_type, sc)

Next ==
    \/ OpenSession
    \/ SetYearRange
    \/ ShowOverview
    \/ ShowEconomicIndicators
    \/ ShowDemographicIndicators
    \/ ShowCorrelations
    \/ ShowDataExplorer
    \/ ShowAbout
    \/ SelectXVariable
    \/ SelectYVariable
    \/ SelectVizType
    \/ SelectColumns

Spec == Init /\ [][Next]_vars

\* -------------------------------------------------------------------------
\* The rolling statistics on a free-standing series
\* -------------------------------------------------------------------------
SeriesValues == {NaN, Inf, Num(0), Num(1), Num(3)}

InitSeries ==
    /\ data = MkData(AllColumns, <<<<2018, Num(100), Num(30)>>>>)
    /\ fill_method = "pad"
    /\ pages = "Overview"
    /\ selected_years = <<0, 0>>
    /\ x_variable = ""
    /\ y_variable = ""
    /\ viz_type = "Line Chart"
    /\ select_columns = <<>>
    /\ filtered = EmptyFrame
    /\ annual_df = EmptyFrame
    /\ out = {}
    /\ view = [not_run |-> TRUE]
    /\ err = "not_run"
    /\ series \in UNION {[1 .. n -> SeriesValues] : n \in 0 .. MaxSeriesLen}
    /\ rolled = [stat |-> "none", values |-> <<>>]

RollingStd ==
    /\ rolled' = [stat |-> "std", values |-> rolling_std(series)]
    /\ UNCHANGED <<data, fill_method, pages, selected_years, x_variable, y_variable,
                   viz_type, select_columns, filtered, annual_df, out, view, err, series>>

RollingMean ==
    /\ rolled' = [stat |-> "mean", values |-> gdp_growth_smoothed(series)]
    /\ UNCHANGED <<data, fill_method, pages, selected_years, x_variable, y_variable,
                   viz_type, select_columns, filtered, annual_df, out, view, err, series>>

NextSeries == RollingStd \/ RollingMean

SpecSeries == InitSeries /\ [][NextSeries]_vars

\* -------------------------------------------------------------------------
\* The correlations page over files whose indicators vary independently
\* -------------------------------------------------------------------------
CorrValues == {NaN, Num(1), Num(3)}
CorrSecond == {Num(1), Num(3)}
CorrThird == {NaN, Num(30)}

\* one record per year from the first year on: GDP g, life expectancy l,
\* fertility f, every other indicator 30
MkCorrData(rowspec) ==
    [columns |-> AllColumns,
     rows |-> AsTuple([i \in DOMAIN rowspec |->
                [time_period |-> PeriodLabel(SetMin(Years) + i - 1, 1),
                 year |-> 0,
                 v |-> AsFunction([c \in CatalogCodes |->
                          IF c = GDP THEN rowspec[i][1]
                          ELSE IF c = LIFE_EXP THEN rowspec[i][2]
                          ELSE IF c = FERTILITY THEN rowspec[i][3]
                          ELSE Num(30)])]])]

CorrDatasets ==
    UNION {{MkCorrData(sp) : sp \in [1 .. n -> CorrValues \X CorrSecond \X CorrThird]} :
             n \in 1 .. Cardinality(Years)}

InitCorr ==
    /\ data \in CorrDatasets
    /\ fill_method \in {"pad", "none"}
    /\ pages = "Overview"
    /\ selected_years = <<0, 0>>
    /\ x_variable = ""
    /\ y_variable = ""
    /\ viz_type = "Line Chart"
    /\ select_columns = <<>>
    /\ filtered = EmptyFrame
    /\ annual_df = EmptyFrame
    /\ out = {}
    /\ view = [not_run |-> TRUE]
    /\ err = "not_run"
    /\ series = <<>>
    /\ rolled = [stat |-> "none", values |-> <<>>]

NextCorr == OpenSession \/ ShowCorrelations

SpecCorr == InitCorr /\ [][NextCorr]_vars

\* -------------------------------------------------------------------------
\* The script as a function of the file, the page and any pair of years,
\* including pairs the slider never hands over (lo > hi)
\* -------------------------------------------------------------------------
InitAnyRange ==
    /\ data \in Datasets
    /\ fill_method \in {"pad", "none"}
    /\ pages \in PageNames
    /\ selected_years \in Years \X Years
    /\ x_variable = ""
    /\ y_variable = ""
    /\ viz_type = "Line Chart"
    /\ select_columns = <<>>
    /\ filtered = EmptyFrame
    /\ annual_df = EmptyFrame
    /\ out = {}
    /\ view = [not_run |-> TRUE]
    /\ err = "not_run"
    /\ series = <<>>
    /\ rolled = [stat |-> "none", values |-> <<>>]

\* one run of the script on the chosen page with the chosen pair of years
RunPipeline ==
    /\ err = "not_run"
    /\ RerunPage(pages, selected_years)

NextAnyRange == RunPipeline

SpecAnyRange == InitAnyRange /\ [][NextAnyRange]_vars

\* -------------------------------------------------------------------------
\* Properties
\* -------------------------------------------------------------------------
Completed == err = "none"

InSelectedRange(y) == selected_years[1] <= y /\ y <= selected_years[2]

\* the positions of df, up to i, whose derived year lies in the selected range
KeptUpTo(i) == {j \in 1 .. i : InSelectedRange(df.rows[j].year_only)}

\* C1: the filtered frame holds exactly the records of the dataset whose derived
\* year lies in [lo, hi], each once, in the order they have in the dataset:
\* the k-th kept record of the dataset is the k-th record of the output.
C1_RangeFilterExact ==
    (err \in {"none", "KeyError"} /\ ~YearOnlyRaises(data)) =>
        /\ Len(filtered.rows) = Cardinality(KeptUpTo(Len(data.rows)))
        /\ \A k \in DOMAIN filtered.rows : InSelectedRange(filtered.rows[k].year_only)
        /\ \A i \in KeptUpTo(Len(data.rows)) :
              filtered.rows[Cardinality(KeptUpTo(i))] = df.rows[i]

\* C1 witness: a run that dropped an earlier record and kept a later record
\* of an earlier year
C1_Witness ==
    /\ Completed
    /\ \E i, j \in DOMAIN data.rows :
         /\ i < j
         /\ df.rows[j].year_only < df.rows[i].year_only
         /\ ~InSelectedRange(df.rows[i].year_only)
         /\ InSelectedRange(df.rows[j].year_only)

\* the filtered positions of year y that have a value in column c
Present(y, c) ==
    {i \in DOMAIN filtered.rows :
        filtered.rows[i].year_only = y /\ ~isna(filtered.rows[i].v[c])}

RECURSIVE TotalOf(_, _)
TotalOf(P, c) ==
    IF P = {} THEN Num(0)
    ELSE LET i == CHOOSE k \in P : TRUE
         IN RAdd(filtered.rows[i].v[c], TotalOf(P \ {i}, c))

\* x is the arithmetic mean of the values of column c at the positions P
IsMeanOf(x, P, c) ==
    IF P = {} THEN isna(x)
    ELSE /\ IsFinite(x)
         /\ x.n * Cardinality(P) * TotalOf(P, c).d = TotalOf(P, c).n * x.d

\* C2: the annual frame has one row per distinct year of the filtered records,
\* in ascending order, and each aggregated indicator of a year is the mean of
\* its non-missing values in that year, missing when the year has none.
C2_AnnualMeans ==
    Completed =>
        /\ {annual_df.rows[k].year_only : k \in DOMAIN annual_df.rows}
             = {filtered.rows[i].year_only : i \in DOMAIN filtered.rows}
        /\ \A k \in 1 .. (Len(annual_df.rows) - 1) :
              annual_df.rows[k].year_only < annual_df.rows[k + 1].year_only
        /\ \A k \in DOMAIN annual_df.rows : \A c \in AggCodes :
              IsMeanOf(annual_df.rows[k].v[c], Present(annual_df.rows[k].year_only, c), c)

\* C2 witness: a year with two records, one without a GDP value, whose annual
\* GDP is the other record's value, next to a year with no rural value at all
C2_Witness ==
    /\ Completed
    /\ \E k \in DOMAIN annual_df.rows :
         \E i, j \in DOMAIN filtered.rows :
            /\ i # j
            /\ filtered.rows[i].year_only = annual_df.rows[k].year_only
            /\ filtered.rows[j].year_only = annual_df.rows[k].year_only
            /\ isna(filtered.rows[i].v[GDP])
            /\ filtered.rows[j].v[GDP] = Num(100)
            /\ annual_df.rows[k].v[GDP] = Num(100)

HasGrowth == Completed /\ "gdp_growth_pct" \in annual_df.columns

\* the annual rows of calendar year y (at most one)
RowsOfYear(y) == {j \in DOMAIN annual_df.rows : annual_df.rows[j].year_only = y}

\* g is (cur - prev) / prev * 100 for finite cur and finite non-zero prev
IsPercentChange(g, cur, prev) ==
    /\ IsFinite(g)
    /\ g.n * prev.n * cur.d = 100 * (cur.n * prev.d - prev.n * cur.d) * g.d

\* C3: the GDP growth of every year y but the first is the percent change from
\* the aggregated value of calendar year y-1; when the series has no row for
\* year y-1 there is no such baseline and the growth is missing.
C3_GrowthFromPrecedingCalendarYear ==
    HasGrowth =>
        \A k \in 2 .. Len(annual_df.rows) :
            LET y == annual_df.rows[k].year_only
                cur == annual_df.rows[k].v[GDP]
                g == annual_df.rows[k].v["gdp_growth_pct"]
            IN /\ RowsOfYear(y - 1) = {} => isna(g)
               /\ \A j \in RowsOfYear(y - 1) :
                     LET prev == annual_df.rows[j].v[GDP]
                     IN (IsFinite(cur) /\ IsFinite(prev) /\ prev.n # 0)
                           => IsPercentChange(g, cur, prev)

\* C4: when the value of the prior year is zero or missing, the growth of the
\* year is missing: neither infinite nor computed from an older baseline.
C4_NoBaselineGivesMissing ==
    HasGrowth =>
        \A k \in 2 .. Len(annual_df.rows) :
            LET prev == annual_df.rows[k - 1].v[GDP]
            IN (annual_df.rows[k - 1].year_only = annual_df.rows[k].year_only - 1
                  /\ (isna(prev) \/ prev.n = 0))
                  => isna(annual_df.rows[k].v["gdp_growth_pct"])

\* C5: the growth series has one entry per annual row, the first entry is
\* missing, and a year valued 110 that follows a year valued 100 has growth 10.
C5_GrowthSeriesShape ==
    HasGrowth =>
        /\ Len(Column(annual_df.rows, "gdp_growth_pct")) = Len(annual_df.rows)
        /\ \A k \in DOMAIN annual_df.rows :
              /\ k = 1 => isna(annual_df.rows[k].v["gdp_growth_pct"])
              /\ (/\ k > 1
                  /\ annual_df.rows[k - 1].year_only = annual_df.rows[k].year_only - 1
                  /\ annual_df.rows[k - 1].v[GDP] = Num(100)
                  /\ annual_df.rows[k].v[GDP] = Num(110))
                    => annual_df.rows[k].v["gdp_growth_pct"] = Num(10)

\* C5 witness: an annual series with 100 in a year and 110 in the next
C5_Witness ==
    /\ HasGrowth
    /\ Len(annual_df.rows) = 2
    /\ annual_df.rows[1].year_only + 1 = annual_df.rows[2].year_only
    /\ annual_df.rows[1].v[GDP] = Num(100)
    /\ annual_df.rows[2].v[GDP] = Num(110)
    /\ isna(annual_df.rows[1].v["gdp_growth_pct"])
    /\ annual_df.rows[2].v["gdp_growth_pct"] = Num(10)

\* the w entries of the series that end at position t
Window(t, w) == SubSeq(series, t - w + 1, t)

\* an entry that is not a finite number is no observation: the growth series
\* holds an infinite entry only where its baseline was zero
HasMissing(win) == \E i \in DOMAIN win : ~IsFinite(win[i])

\* m is the arithmetic mean of the finite window
IsWindowMean(m, win) ==
    /\ IsFinite(m)
    /\ m.n * Len(win) * SumSeq(win).d = SumSeq(win).n * m.d

\* q is the square of the sample standard deviation of the finite window:
\* the squared distances from the window's mean, summed, over (w - 1)
IsWindowStdSquared(q, win) ==
    LET t == SumSeq(win)
        m == Rat(t.n, t.d * Len(win))
        dist == [i \in DOMAIN win |->
                   LET e == RAdd(win[i], RMul(Num(-1), m)) IN RMul(e, e)]
        total == SumSeq(dist)
    IN /\ IsFinite(q)
       /\ q.n * (Len(win) - 1) * total.d = total.n * q.d

\* the statistic has one entry per entry of the series; it is missing at the
\* first w-1 positions and wherever the window holds a missing entry, and is
\* the statistic of the w entries ending at t everywhere else
RollingContract(w, stat) ==
    /\ Len(rolled.values) = Len(series)
    /\ \A t \in DOMAIN series :
          IF t < w THEN isna(rolled.values[t])
          ELSE IF HasMissing(Window(t, w)) THEN isna(rolled.values[t])
               ELSE IF stat = "std"
                    THEN IsWindowStdSquared(rolled.values[t], Window(t, w))
                    ELSE IsWindowMean(rolled.values[t], Window(t, w))

\* C6: the rolling standard deviation over 5 entries and the rolling mean over
\* 3 entries are computed from the w consecutive entries ending at t: missing
\* for the first w-1 positions, missing when any entry of the window is
\* missing, and defined from the w-th position on otherwise.
C6_RollingWindows ==
    /\ rolled.stat = "std" => RollingContract(5, "std")
    /\ rolled.stat = "mean" => RollingContract(3, "mean")

\* C6 witness: a rolling deviation that is defined at the fifth position and
\* missing at the sixth because the sixth entry is missing
C6_Witness ==
    /\ rolled.stat = "std"
    /\ Len(series) = 6
    /\ ~HasMissing(Window(5, 5))
    /\ ~isna(rolled.values[5])
    /\ rolled.values[5].n > 0
    /\ isna(series[6])
    /\ isna(rolled.values[6])


OnPage(p) == Completed /\ pages = p

\* C7: on the demographic page the urban share of every year is 100 minus the
\* rural share where the rural share is defined (30 gives 70) and missing
\* where it is missing.
C7_UrbanIsComplement ==
    OnPage("Demographic Indicators") =>
        \A k \in DOMAIN annual_df.rows :
            LET rural == annual_df.rows[k].v[RURAL]
                urban == annual_df.rows[k].v["urban_population_pct"]
            IN /\ isna(rural) => isna(urban)
               /\ IsFinite(rural) =>
                     /\ IsFinite(urban)
                     /\ urban.n * rural.d + rural.n * urban.d = 100 * urban.d * rural.d
               /\ rural = Num(30) => urban = Num(70)

\* C7 witness: a demographic page with a year of rural share 30 and urban
\* share 70 and a year with neither
C7_Witness ==
    /\ OnPage("Demographic Indicators")
    /\ \E k, m \in DOMAIN annual_df.rows :
         /\ annual_df.rows[k].v[RURAL] = Num(30)
         /\ annual_df.rows[k].v["urban_population_pct"] = Num(70)
         /\ isna(annual_df.rows[m].v[RURAL])
         /\ isna(annual_df.rows[m].v["urban_population_pct"])

\* the loaded file holds the records 2018, 2019, 2020 with GDP 100, 200, missing
EndToEndRecords ==
    /\ Len(data.rows) = 3
    /\ ~YearOnlyRaises(data)
    /\ \A i \in 1 .. 3 : df.rows[i].year_only = 2017 + i
    /\ data.rows[1].v[GDP] = Num(100)
    /\ data.rows[2].v[GDP] = Num(200)
    /\ isna(data.rows[3].v[GDP])

\* C8: with records for 2018, 2019, 2020 valued 100, 200, missing and the range
\* [2018, 2019], the annual series has exactly the years 2018 and 2019 with
\* values 100 and 200, growth missing for 2018 and 100 for 2019.
C8_EndToEnd ==
    (Completed /\ EndToEndRecords /\ selected_years = <<2018, 2019>>) =>
        /\ Len(annual_df.rows) = 2
        /\ annual_df.rows[1].year_only = 2018
        /\ annual_df.rows[2].year_only = 2019
        /\ annual_df.rows[1].v[GDP] = Num(100)
        /\ annual_df.rows[2].v[GDP] = Num(200)
        /\ isna(annual_df.rows[1].v["gdp_growth_pct"])
        /\ annual_df.rows[2].v["gdp_growth_pct"] = Num(100)

\* C8 witness: the scenario has run to completion
C8_Witness ==
    /\ Completed
    /\ EndToEndRecords
    /\ selected_years = <<2018, 2019>>
    /\ Len(filtered.rows) = 2
    /\ Len(annual_df.rows) = 2

\* C9: a two-variable scatter asked for with one distinct indicator shows the
\* informational placeholder and no chart.
C9_ScatterNeedsTwoIndicators ==
    (OnPage("Data Explorer") /\ viz_type = "Scatter Plot" /\ x_variable = y_variable) =>
        /\ "placeholder_data_not_available" \in out
        /\ "scatter_chart" \notin out

\* C10: a file without one of the requested indicator columns still gives a
\* completed run: the annual aggregation of the other indicators is produced.
C10_MissingIndicatorNonFatal ==
    (err # "not_run" /\ ~YearOnlyRaises(data) /\ ~(AggCodes \subseteq data.columns)) =>
        /\ Completed
        /\ Len(annual_df.rows) > 0
        /\ "exception" \notin out

\* the annual rows in which both columns hold a value
BothPresent(a, b) ==
    LET Both(r) == ~isna(r.v[a]) /\ ~isna(r.v[b])
    IN SelectSeq(annual_df.rows, Both)

\* the distances of column c from its mean over the given rows
Deviations(rows, c) ==
    LET t == SumSeq(Column(rows, c))
        m == Rat(t.n, t.d * Len(rows))
    IN [i \in DOMAIN rows |-> RAdd(rows[i].v[c], RMul(Num(-1), m))]

\* e is the Pearson coefficient of columns a and b over the rows where both
\* are present: undefined when there is no such row or a column does not
\* vary over them, else sign and square of cov / sqrt(var_a * var_b)
IsPairwisePearson(e, a, b) ==
    LET rows == BothPresent(a, b)
    IN IF rows = <<>> THEN isna(e.sq)
       ELSE LET da == Deviations(rows, a)
                db == Deviations(rows, b)
                va == SumSeq([i \in DOMAIN rows |-> RMul(da[i], da[i])])
                vb == SumSeq([i \in DOMAIN rows |-> RMul(db[i], db[i])])
                cab == SumSeq([i \in DOMAIN rows |-> RMul(da[i], db[i])])
            IN IF va.n = 0 \/ vb.n = 0 THEN isna(e.sq)
               ELSE /\ IsFinite(e.sq)
                    /\ RMul(e.sq, RMul(va, vb)) = RMul(cab, cab)
                    /\ e.sign = Sign(cab)

\* C11: the correlation matrix over at least two available indicators is
\* symmetric, has coefficient 1 on the diagonal wherever the self-correlation
\* is defined, and every entry is the Pearson coefficient over exactly the
\* annual rows where both indicators of the pair are present.
C11_CorrelationMatrix ==
    (OnPage("Correlations & Relationships") /\ Len(view.available_indicators) >= 2) =>
        LET cols == view.available_indicators
            m == view.corr_matrix
        IN /\ "correlation_matrix" \in out
           /\ DOMAIN m = DOMAIN cols
           /\ \A i, j \in DOMAIN cols :
                 /\ m[i][j] = m[j][i]
                 /\ IsPairwisePearson(m[i][j], cols[i], cols[j])
           /\ \A i \in DOMAIN cols :
                 ~isna(m[i][i].sq) => m[i][i] = [sign |-> 1, sq |-> Num(1)]

\* C11 witness: a matrix with a defined diagonal entry, an undefined one, and
\* a coefficient strictly between 0 and 1 over rows of which one lacks a
\* third indicator
C11_Witness ==
    /\ OnPage("Correlations & Relationships")
    /\ Len(view.available_indicators) >= 2
    /\ view.corr_matrix[1][1] = [sign |-> 1, sq |-> Num(1)]
    /\ isna(view.corr_matrix[3][3].sq)
    /\ view.corr_matrix[1][2].sign = 1
    /\ view.corr_matrix[1][2].sq = Rat(1, 4)
    /\ \E k \in DOMAIN annual_df.rows : isna(annual_df.rows[k].v[FERTILITY])

\* the file has everything the script asks of it
WellFormedFile == ~YearOnlyRaises(data) /\ AggCodes \subseteq data.columns

\* C12: with an inverted range (lo > hi) the filter gives no Records and
\* raises nothing, and aggregation, derived metrics and the page complete
\* without an exception on the empty input.
C12_InvertedRangeIsEmpty ==
    (err # "not_run" /\ WellFormedFile /\ selected_years[1] > selected_years[2]) =>
        /\ err = "none"
        /\ filtered.rows = <<>>
        /\ annual_df.rows = <<>>
        /\ "exception" \notin out
        /\ pages = "Overview" =>
              /\ {"warning_no_data", "warning_insufficient_data"} \subseteq out
              /\ "key_metrics" \notin out

\* C12 witness: a completed Overview run on a file of several Records with
\* an inverted range
C12_Witness ==
    /\ err = "none"
    /\ pages = "Overview"
    /\ Len(data.rows) >= 2
    /\ selected_years[1] > selected_years[2]
    /\ filtered.rows = <<>>
    /\ "warning_no_data" \in out

\* the annual series computed from the loaded file and the current range alone
AnnualFromScratch ==
    LET a0 == GroupByMean(RangeFilter(PeriodNormalizer(data), selected_years))
    IN WithColumn(a0, "gdp_growth_pct",
                  gdp_growth_pct(Column(a0.rows, GDP), fill_method))

\* the derived columns the current page attaches
PageColumns ==
    IF pages = "Demographic Indicators" THEN {"urban_population_pct"}
    ELSE IF pages = "Correlations & Relationships" THEN {"gdp_growth_smoothed"}
    ELSE {}

\* C13: after any sequence of range changes and page selections the annual
\* series and everything shown equal what one run from the loaded file, the
\* current range and the current widget values gives; no value and no
\* derived column of an earlier interaction is left over.
C13_HistoryIndependence ==
    Completed =>
        \E a \in {AnnualFromScratch} :
        \E r \in {Script(pages, selected_years, x_variable, y_variable,
                         viz_type, select_columns)} :
            /\ annual_df.columns = a.columns \cup PageColumns
            /\ Len(annual_df.rows) = Len(a.rows)
            /\ \A k \in DOMAIN a.rows :
                  /\ annual_df.rows[k].year_only = a.rows[k].year_only
                  /\ \A c \in a.columns \ {"year_only"} :
                        annual_df.rows[k].v[c] = a.rows[k].v[c]
            /\ filtered = r.filtered
            /\ annual_df = r.annual
            /\ out = r.out
            /\ view = r.view

\* C13 witness: a completed run that a page selection and a range change
\* have preceded
C13_Witness ==
    /\ Completed
    /\ pages = "Economic Indicators"
    /\ selected_years # InitialRange
    /\ Len(annual_df.rows) >= 2

\* C14: the memoized Dataset is loaded once; no step of any run (period
\* normalization, filtering, aggregation, derived columns, table display)
\* changes its rows, values or columns, whatever the user does.
C14_DatasetImmutable == [][data' = data]_vars

\* C14 witness: the Data Explorer has normalized, filtered, aggregated and
\* tabulated the file after the range was changed
C14_Witness ==
    /\ Completed
    /\ pages = "Data Explorer"
    /\ "data_table" \in out
    /\ selected_years # InitialRange
    /\ "year_only" \in filtered.columns
    /\ "year_only" \notin data.columns

\* the years of the Records of the file, as the script derives them
DatasetYears == {df.rows[i].year_only : i \in DOMAIN df.rows}

\* lo and hi lie between the smallest and the largest year of the file
RangeWithinDataset(sel) ==
    /\ sel[1] <= sel[2]
    /\ \E y \in DatasetYears : y <= sel[1]
    /\ \E y \in DatasetYears : sel[2] <= y

\* the range runs from the smallest to the largest year of the file
IsFullRange(sel) ==
    /\ sel[1] \in DatasetYears
    /\ sel[2] \in DatasetYears
    /\ \A y \in DatasetYears : sel[1] <= y /\ y <= sel[2]

\* C15: whenever the year-range control is drawn, min year <= lo <= hi <=
\* max year of the Dataset; and the range of the first run is the full
\* [min year, max year].
C15_YearRangeInvariant ==
    /\ [](SidebarDrawn => RangeWithinDataset(selected_years))
    /\ [][(err = "not_run" /\ ~YearOnlyRaises(data)) => IsFullRange(selected_years')]_vars

\* C15 witness: the slider has been narrowed to a single inner year of a file
\* that spans three years
C15_Witness ==
    /\ SidebarDrawn
    /\ selected_years = <<2019, 2019>>
    /\ {2018, 2020} \subseteq DatasetYears

\* the label is the digits of year y, alone or followed by '-' and a rest
IsLabelOfYear(label, y) ==
    LET ds == Digits(y)
    IN /\ Len(label) >= Len(ds)
       /\ SubSeq(label, 1, Len(ds)) = ds
       /\ Len(label) > Len(ds) => label[Len(ds) + 1] = DASH

\* the label has no integer before its first '-'
HasNoYearPrefix(label) ==
    \/ label = <<>>
    \/ label[1] = DASH
    \/ \E k \in DOMAIN label :
         /\ label[k] \notin 0 .. 9
         /\ label[k] # DASH
         /\ \A j \in 1 .. (k - 1) : label[j] # DASH

\* C16: with a composite period label the derived year of every Record is the
\* integer before the first separator ("2018-Q1" gives 2018), otherwise the
\* existing year field unchanged; the year is derived before the filter is
\* applied; and a file with a period that does not parse ends the run with
\* an error instead of giving any Record a year.
C16_PeriodNormalizer ==
    err # "not_run" =>
        IF "time_period" \in data.columns
        THEN IF \E i \in DOMAIN data.rows : HasNoYearPrefix(data.rows[i].time_period)
             THEN /\ err = "ValueError"
                  /\ filtered.rows = <<>>
                  /\ annual_df.rows = <<>>
                  /\ out = {"exception"}
             ELSE /\ err # "ValueError"
                  /\ \A k \in DOMAIN filtered.rows :
                        /\ IsLabelOfYear(filtered.rows[k].time_period,
                                         filtered.rows[k].year_only)
                        /\ InSelectedRange(filtered.rows[k].year_only)
        ELSE \A k \in DOMAIN filtered.rows :
                /\ filtered.rows[k].year_only = filtered.rows[k].year
                /\ InSelectedRange(filtered.rows[k].year_only)

\* C16 witness: a run over quarterly labels whose Records carry the year of
\* their label
C16_Witness ==
    /\ Completed
    /\ "time_period" \in data.columns
    /\ Len(filtered.rows) >= 2
    /\ filtered.rows[1].time_period = <<2, 0, 1, 8, DASH, QCH, 1>>
    /\ filtered.rows[1].year_only = 2018
    /\ filtered.rows[2].year_only = 2019

\* the table rows come in non-increasing year order
YearDescending(rows) ==
    \A i, j \in DOMAIN rows : i < j => rows[i].Year >= rows[j].Year

\* the table row made of a filtered Record and the selected labels
TableRowOf(r) ==
    [Year |-> r.year_only,
     cells |-> [k \in DOMAIN select_columns |-> r.v[indicator_map[select_columns[k]]]]]

\* both sequences hold the same rows the same number of times
SameRows(t, u) ==
    /\ Len(t) = Len(u)
    /\ \A x \in Range(t) \cup Range(u) :
          Cardinality({i \in DOMAIN t : t[i] = x}) = Cardinality({i \in DOMAIN u : u[i] = x})

\* C17: the displayed table has one row per filtered Record, a Year column
\* plus exactly the selected indicators under their labels, is ordered by year
\* descending, and the export holds that same table: same rows, same columns,
\* same order.
C17_TableAndExport ==
    (OnPage("Data Explorer") /\ "data_table" \in out) =>
        /\ view.header = <<"Year">> \o select_columns
        /\ SameRows(view.table, [i \in DOMAIN filtered.rows |-> TableRowOf(filtered.rows[i])])
        /\ YearDescending(view.table)
        /\ "download_link" \in out
        /\ view.csv = view.table

\* C18: on the GDP trend chart each of the seven fixed events is marked if
\* and only if lo <= event year <= hi; the threshold lines (fertility 2.1,
\* zero growth 0, debt-service warning 5) are drawn whatever the range and
\* the data.
C18_OverlayAnnotations ==
    Completed =>
        /\ pages = "Overview" =>
              /\ "gdp_trend_chart" \in out
              /\ \A e \in {1977, 1983, 2004, 2009, 2019, 2020, 2022} :
                    e \in view.vlines <=> InSelectedRange(e)
              /\ view.vlines \subseteq {1977, 1983, 2004, 2009, 2019, 2020, 2022}
        /\ pages = "Economic Indicators" =>
              {<<"zero_growth", Num(0)>>, <<"debt_service_warning", Num(5)>>}
                  \subseteq view.hlines
        /\ pages = "Demographic Indicators" =>
              {<<"replacement_fertility", Rat(21, 10)>>, <<"zero_population_growth", Num(0)>>}
                  \subseteq view.hlines

\* C18 witness: the range ends before 2020, the file does not: 2019 is
\* marked, 2020 is not
C18_Witness ==
    /\ OnPage("Overview")
    /\ selected_years = <<2018, 2019>>
    /\ 2020 \in DatasetYears
    /\ view.vlines = {2019}

\* r is the last of the filtered Records that carry the largest year
IsLastOfLatestYear(r) ==
    \E i \in DOMAIN filtered.rows :
        /\ filtered.rows[i] = r
        /\ \A j \in DOMAIN filtered.rows :
              /\ filtered.rows[j].year_only <= r.year_only
              /\ j > i => filtered.rows[j].year_only < r.year_only

\* C19: the Overview takes its key metrics from the last Record, in Dataset
\* order, of the largest year among the filtered Records; with no filtered
\* Record it shows the 'no data' warning instead of the metrics, with fewer
\* than two annual rows the 'insufficient data' warning instead of the
\* insights; no exception is raised in either case.
C19_OverviewPage ==
    (err # "not_run" /\ WellFormedFile /\ pages = "Overview") =>
        /\ err = "none"
        /\ "exception" \notin out
        /\ IF filtered.rows = <<>>
           THEN /\ "warning_no_data" \in out
                /\ "key_metrics" \notin out
                /\ view.latest_row = <<>>
           ELSE /\ "key_metrics" \in out
                /\ "warning_no_data" \notin out
                /\ Len(view.latest_row) = 1
                /\ IsLastOfLatestYear(view.latest_row[1])
        /\ IF Len(annual_df.rows) < 2
           THEN /\ "warning_insufficient_data" \in out
                /\ "insights" \notin out
                /\ view.avg_gdp_growth = <<>>
                /\ view.life_exp_change = <<>>
                /\ view.fertility_change = <<>>
           ELSE /\ "insights" \in out
                /\ "warning_insufficient_data" \notin out
                /\ Len(view.avg_gdp_growth) = 1

\* C19 witness: the range selects a year the file has no Record of, so both
\* warnings show
C19_Witness ==
    /\ OnPage("Overview")
    /\ Len(data.rows) >= 2
    /\ filtered.rows = <<>>
    /\ {"warning_no_data", "warning_insufficient_data"} \subseteq out
    /\ "key_metrics" \notin out

PerCapitaLabel == "GDP per Capita (Current US$)"

\* C20: the annual series holds only the year, the nine aggregated codes and
\* the derived columns of the pages; GDP per capita, offered in the catalog,
\* is never one of its columns, so selecting it in the Data Explorer gives
\* the 'data not available' placeholder in scatter mode and no trace for it
\* in line mode, even when the file has the column.
C20_AnnualColumns ==
    Completed =>
        /\ {"year_only", "ny.gdp.mktp.cd", "sp.dyn.le00.in", "sp.pop.grow",
            "sp.dyn.tfrt.in", "sp.rur.totl.zs", "sh.dyn.aids.zs", "ny.gdp.defl.zs",
            "dt.tds.dect.gn.zs", "pa.nus.fcrf"} \subseteq annual_df.columns
        /\ annual_df.columns \subseteq
              {"year_only", "ny.gdp.mktp.cd", "sp.dyn.le00.in", "sp.pop.grow",
               "sp.dyn.tfrt.in", "sp.rur.totl.zs", "sh.dyn.aids.zs", "ny.gdp.defl.zs",
               "dt.tds.dect.gn.zs", "pa.nus.fcrf",
               "gdp_growth_pct", "urban_population_pct", "gdp_growth_smoothed"}
        /\ "ny.gdp.pcap.cd" \notin annual_df.columns
        /\ (pages = "Data Explorer" /\ PerCapitaLabel \in {x_variable, y_variable}) =>
              IF viz_type = "Scatter Plot"
              THEN /\ "placeholder_data_not_available" \in out
                   /\ "scatter_chart" \notin out
              ELSE /\ "line_chart" \in out
                   /\ \A k \in DOMAIN view.traces : view.traces[k] # PerCapitaLabel

\* C20 witness: the file has the per-capita column, it is selected for the
\* scatter, and the placeholder is shown
C20_Witness ==
    /\ OnPage("Data Explorer")
    /\ "ny.gdp.pcap.cd" \in data.columns
    /\ viz_type = "Scatter Plot"
    /\ x_variable = "GDP (Current US$)"
    /\ y_variable = PerCapitaLabel
    /\ "placeholder_data_not_available" \in out

\* C21: on the Data Explorer page, when no column is selected for display,
\* neither the table nor the export link is produced and the message asking
\* to select at least one column is shown.
C21_EmptySelectionShowsInfo ==
    (OnPage("Data Explorer") /\ select_columns = <<>>) =>
        /\ "data_table" \notin out
        /\ "download_link" \notin out
        /\ "info_select_column" \in out

====
